---- MODULE Spec2Model ----
(***************************************************************************)
(* A model of the TTL cache (nuget/nugetclient.py), of its use by a pool   *)
(* of workers (main.py), of the Version algebra                           *)
(* (nuget/models/metadata.py) and of PackageReference (nuget/xml.py).      *)
(*                                                                         *)
(* The specifications of the module:                                       *)
(*   Spec      one caller driving a Cache over a directory, with restarts  *)
(*   SpecConc  a batch of workers sharing one Cache and one RLock          *)
(*   SpecVer   the Version comparison operators applied to drawn inputs    *)
(*   SpecCreate     Version.create applied to drawn version texts          *)
(*   SpecRangeText  VersionRange.from_rangestring applied to drawn texts   *)
(*   SpecRange      inrange and common_minimum_version on drawn ranges     *)
(*   SpecMetadata   NugetClient.get_metadata on drawn registry answers     *)
(*   SpecMain       main.py run as __main__, on drawn cache directories    *)
(*   SpecPref       assignments to a PackageReference of a drawn element   *)
(*                                                                         *)
(* Time is counted in days.  Strings that the code takes apart or builds   *)
(* (file names, version texts) are sequences of their parts; an optional   *)
(* value (None or x) is the sequence <<>> or <<x>>.                        *)
(***************************************************************************)
EXTENDS Integers, Sequences, FiniteSets, TLC

(* ------------------------------ bounds --------------------------------- *)

\* the last day the clock reaches
MaxNow == 3

\* the number of calls each worker of the batch makes
MaxOps == 2

\* the largest major / minor / patch number drawn for a Version
MaxNum == 1

(* --------------------------- program constants ------------------------- *)

\* CacheEntry.expiry_date default: now + timedelta(days=10)
DefaultExpiryDays == 10

\* CachedHttpClient.default_expiry_time: timedelta(days=5)
ClientExpiryDays == 5

(* ------------------------------ inputs --------------------------------- *)

Keys == {"a", "b"}
URLs == {"u"}
Values == {"v1", "v2"}
\* expires_in: None, timedelta(0), timedelta(days=1)
TTLs == {<<>>, <<0>>, <<1>>}
Workers == {"w1", "w2"}
None == "None"

VARIABLES
    index,      \* Cache.index: the dict, as the sequence of its entries in insertion order
    disk,       \* the files of cache_dirpath: a set of [name, data]
    now,        \* datetime.now(), in days
    running,    \* a CachedHttpClient (and its Cache) is alive
    last,       \* the last call made on the cache and what it found
    ret,        \* what the last call returned
    exc,        \* the exception the last call raised, or None
    lock,       \* globals.lock, the RLock: its owner and how often the owner holds it
    wk,         \* each worker of the pool: where it is in its call, its locals
    fetched,    \* for each URL, the requests session.get made for it
    added,      \* for each key, the values add was called with
    va, vb,     \* two Versions
    cmp,        \* <<>>, or the results of comparing va with vb
    arg,        \* the arguments drawn for a call of a function of the models
    res,        \* <<>>, or what that call returned or raised
    main,       \* where the program (main.py run as __main__) is
    pref        \* a PackageReference: its element's attributes, its last assignment

cachevars == <<index, disk, now, running, last, ret, exc>>
concvars == <<lock, wk, fetched, added>>
vervars == <<va, vb, cmp>>
funvars == <<arg, res>>

(* ----------------------------- CacheEntry ------------------------------ *)

\* datetime.isoformat(): the fields as zero-padded decimal digits
isoformat(t) == <<t \div 10, t % 10>>

fromisoformat_swapped(s) == s[2] * 10 + s[1]

\* datetime.fromisoformat()
fromisoformat(s) == s[1] * 10 + s[2]

B64Chars == <<"A", "B", "C", "D", "E", "F", "G", "H", "I", "J">>

\* base64.b64encode(bytes).decode()
b64encode(bytes) == [i \in DOMAIN bytes |-> B64Chars[bytes[i] + 1]]

\* base64.b64decode(text)
b64decode(text) ==
    [i \in DOMAIN text |-> CHOOSE n \in 0..9 : B64Chars[n + 1] = text[i]]

\* jsonpickle.encode(value), gzip-compressed
jsonencode(value) == <<"gz", "json", value>>

\* jsonpickle.decode of the decompressed file
jsondecode(data) == data[3]

\* CacheEntry(keyhash, value, dirpath, expiry_date)
CacheEntry(keyhash, value, expiry_date) ==
    [keyhash |-> keyhash, value |-> value, expiry_date |-> expiry_date]

\* CacheEntry.filename: f'{keyhash}.{expiry_base64}.cache', as its three parts
filename(ce) == <<ce.keyhash, b64encode(isoformat(ce.expiry_date)), "cache">>

exists(dsk, name) == \E f \in dsk : f.name = name

\* CacheEntry.__load_data
load_data(dsk, name) == jsondecode((CHOOSE f \in dsk : f.name = name).data)

\* CacheEntry.from_filename
from_filename(dsk, name) ==
    LET keyhash == name[1]
        expiry_date == fromisoformat(b64decode(name[2]))
    IN  CacheEntry(keyhash, load_data(dsk, name), expiry_date)

isexpired_ge(ce, t) == t >= ce.expiry_date

\* CacheEntry.isexpired
isexpired(ce, t) == t > ce.expiry_date

\* CacheEntry.save, `with gzip.open(self.filepath, mode='wb')`: the file is
\* made, or made anew, with the encoded value
write(ce, dsk) ==
    {f \in dsk : f.name # filename(ce)}
        \cup {[name |-> filename(ce), data |-> jsonencode(ce.value)]}

\* CacheEntry.save: the directory after it
save(ce, dsk) == IF exists(dsk, filename(ce)) THEN dsk ELSE write(ce, dsk)

delete_file_keep(ce, dsk) == dsk

\* CacheEntry.delete_file: the directory after it
delete_file(ce, dsk) ==
    IF exists(dsk, filename(ce))
    THEN {f \in dsk : f.name # filename(ce)}
    ELSE dsk

(* ------------------------------- the dict ------------------------------ *)

\* keyhash in self.index
Has(idx, keyhash) == \E i \in DOMAIN idx : idx[i].keyhash = keyhash

\* self.index.get(keyhash): <<>> or <<entry>>
IndexGet(idx, keyhash) ==
    IF Has(idx, keyhash)
    THEN <<idx[CHOOSE i \in DOMAIN idx : idx[i].keyhash = keyhash]>>
    ELSE <<>>

\* del self.index[keyhash]
IndexDel(idx, keyhash) == SelectSeq(idx, LAMBDA e : e.keyhash # keyhash)

\* self.index[keyhash] = ce: in place for a key the dict has, else at the end
IndexSet(idx, ce) ==
    IF Has(idx, ce.keyhash)
    THEN [i \in DOMAIN idx |-> IF idx[i].keyhash = ce.keyhash THEN ce ELSE idx[i]]
    ELSE Append(idx, ce)

(* -------------------------------- Cache -------------------------------- *)

hashkey_collide(key) == "ca978112"

\* Cache.hashkey: sha256(key).hexdigest(), its first eight digits
hashkey(key) ==
    CASE key = "a" -> "ca978112"
      [] key = "b" -> "3e23e816"
      [] key = "u" -> "0bfe935e"

\* the orders in which os.listdir may give the names of S
Orderings(S) ==
    {s \in [1..Cardinality(S) -> S] : \A i, j \in DOMAIN s : s[i] = s[j] => i = j}

RECURSIVE load_index(_, _, _, _)
\* Cache.init.load_index: the loop over the listing `names` from position i,
\* idx being the dict so far
load_index(dsk, names, i, idx) ==
    IF i > Len(names)
    THEN idx
    ELSE load_index(dsk, names, i + 1, IndexSet(idx, from_filename(dsk, names[i])))

\* the indexes a Cache.init on the directory may build
Rebuilds(dsk) ==
    {load_index(dsk, names, 1, <<>>) : names \in Orderings({f.name : f \in dsk})}

\* Cache.__delete (the lock apart): the index and the directory after it
delete(idx, dsk, keyhash) ==
    LET entry == IndexGet(idx, keyhash)
    IN  IF entry # <<>>
        THEN [index |-> IndexDel(idx, keyhash), disk |-> delete_file(entry[1], dsk)]
        ELSE [index |-> idx, disk |-> dsk]

\* Cache.add: the CacheEntry it makes; `not expires_in` holds of None and of
\* timedelta(0), which get the default expiry_date
new_entry(t, keyhash, value, expires_in) ==
    CacheEntry(keyhash, value,
               IF expires_in = <<>> \/ expires_in[1] = 0
               THEN t + DefaultExpiryDays
               ELSE t + expires_in[1])

\* Cache.add, `if ce := self.index.get(keyhash): self.__delete(ce.keyhash)`
delete_old(idx, dsk, keyhash) ==
    IF IndexGet(idx, keyhash) # <<>>
    THEN delete(idx, dsk, keyhash)
    ELSE [index |-> idx, disk |-> dsk]

add_keep_old(idx, dsk, t, keyhash, value, expires_in) ==
    [index |-> IndexSet(idx, new_entry(t, keyhash, value, expires_in)), disk |-> dsk]

\* Cache.add (the lock apart): the index and the directory after it
add(idx, dsk, t, keyhash, value, expires_in) ==
    LET d == delete_old(idx, dsk, keyhash)
    IN  [index |-> IndexSet(d.index, new_entry(t, keyhash, value, expires_in)),
         disk |-> d.disk]

get_selfheal(idx, dsk, t, keyhash) ==
    IF ~Has(idx, keyhash)
    THEN [ret |-> None, index |-> idx, disk |-> dsk]
    ELSE LET entry == IndexGet(idx, keyhash)[1]
         IN  IF isexpired(entry, t) \/ ~exists(dsk, filename(entry))
             THEN LET d == delete(idx, dsk, keyhash)
                  IN  [ret |-> None, index |-> d.index, disk |-> d.disk]
             ELSE [ret |-> entry.value, index |-> idx, disk |-> dsk]

\* Cache.get (the lock apart): what it returns, the index and the directory after it
get(idx, dsk, t, keyhash) ==
    IF ~Has(idx, keyhash)
    THEN [ret |-> None, index |-> idx, disk |-> dsk]
    ELSE LET entry == IndexGet(idx, keyhash)[1]
         IN  IF isexpired(entry, t)
             THEN LET d == delete(idx, dsk, keyhash)
                  IN  [ret |-> None, index |-> d.index, disk |-> d.disk]
             ELSE [ret |-> entry.value, index |-> idx, disk |-> dsk]

RECURSIVE save_all(_, _, _)
\* Cache.save: the directory after entry.save() of every entry from position i
save_all(idx, dsk, i) ==
    IF i > Len(idx) THEN dsk ELSE save_all(idx, save(idx[i], dsk), i + 1)

RECURSIVE delete_expired(_, _, _, _, _)
\* Cache.delete_expired: the loop over self.index.items() from position i of
\* an iterator made when the dict had `used` entries.  The iterator raises
\* RuntimeError on the first step that finds the size of the dict changed.
delete_expired(idx, dsk, t, i, used) ==
    IF Len(idx) # used
    THEN [exc |-> "RuntimeError", index |-> idx, disk |-> dsk]
    ELSE IF i > Len(idx)
    THEN [exc |-> None, index |-> idx, disk |-> dsk]
    ELSE IF isexpired(idx[i], t)
    THEN delete_expired(IndexDel(idx, idx[i].keyhash), delete_file(idx[i], dsk),
                        t, i + 1, used)
    ELSE delete_expired(idx, dsk, t, i + 1, used)

\* CachedHttpClient.__del__: delete_expired(), then save() unless that raised
shutdown(idx, dsk, t) ==
    LET d == delete_expired(idx, dsk, t, 1, Len(idx))
    IN  IF d.exc # None
        THEN d
        ELSE [exc |-> None, index |-> d.index, disk |-> save_all(d.index, d.disk, 1)]

(* ------------------------- one caller: actions ------------------------- *)

\* what `last` records of a call: its name and arguments, the day it was
\* made, and the index and the directory it found
Call(op, key, value, expires_in) ==
    [op |-> op, key |-> key, value |-> value, expires_in |-> expires_in,
     at |-> now, index |-> index, disk |-> disk]

InitCache ==
    /\ index = <<>>
    /\ disk = {}
    /\ now = 0
    /\ running = TRUE
    /\ last = [op |-> "init", key |-> "", value |-> "", expires_in |-> <<>>,
               at |-> 0, index |-> <<>>, disk |-> {}]
    /\ ret = None
    /\ exc = None

\* cache.add(key, value, expires_in)
Add(key, value, expires_in) ==
    /\ running
    /\ LET r == add(index, disk, now, hashkey(key), value, expires_in)
       IN  /\ index' = r.index
           /\ disk' = r.disk
    /\ last' = Call("add", key, value, expires_in)
    /\ ret' = None
    /\ exc' = None
    /\ UNCHANGED <<now, running>>
    /\ UNCHANGED <<concvars, vervars, funvars, main, pref>>

\* cache.get(key)
Get(key) ==
    /\ running
    /\ LET r == get(index, disk, now, hashkey(key))
       IN  /\ index' = r.index
           /\ disk' = r.disk
           /\ ret' = r.ret
    /\ last' = Call("get", key, "", <<>>)
    /\ exc' = None
    /\ UNCHANGED <<now, running>>
    /\ UNCHANGED <<concvars, vervars, funvars, main, pref>>

\* cache.delete(key)
Delete(key) ==
    /\ running
    /\ LET r == delete(index, disk, hashkey(key))
       IN  /\ index' = r.index
           /\ disk' = r.disk
    /\ last' = Call("delete", key, "", <<>>)
    /\ ret' = None
    /\ exc' = None
    /\ UNCHANGED <<now, running>>
    /\ UNCHANGED <<concvars, vervars, funvars, main, pref>>

\* cache.save()
Save ==
    /\ running
    /\ disk' = save_all(index, disk, 1)
    /\ last' = Call("save", "", "", <<>>)
    /\ ret' = None
    /\ exc' = None
    /\ UNCHANGED <<index, now, running>>
    /\ UNCHANGED <<concvars, vervars, funvars, main, pref>>

\* cache.delete_expired()
DeleteExpired ==
    /\ running
    /\ LET r == delete_expired(index, disk, now, 1, Len(index))
       IN  /\ index' = r.index
           /\ disk' = r.disk
           /\ exc' = r.exc
    /\ last' = Call("delete_expired", "", "", <<>>)
    /\ ret' = None
    /\ UNCHANGED <<now, running>>
    /\ UNCHANGED <<concvars, vervars, funvars, main, pref>>

\* the CachedHttpClient is finalized: CachedHttpClient.__del__
Shutdown ==
    /\ running
    /\ LET r == shutdown(index, disk, now)
       IN  /\ index' = r.index
           /\ disk' = r.disk
           /\ exc' = r.exc
    /\ last' = Call("shutdown", "", "", <<>>)
    /\ ret' = None
    /\ running' = FALSE
    /\ UNCHANGED now
    /\ UNCHANGED <<concvars, vervars, funvars, main, pref>>

\* a fresh Cache.init(cache_dirpath) on the same directory
Restart ==
    /\ index' \in Rebuilds(disk)
    /\ last' = Call("init", "", "", <<>>)
    /\ ret' = None
    /\ exc' = None
    /\ running' = TRUE
    /\ UNCHANGED <<disk, now>>
    /\ UNCHANGED <<concvars, vervars, funvars, main, pref>>

\* a day passes
Tick ==
    /\ now < MaxNow
    /\ now' = now + 1
    /\ UNCHANGED <<index, disk, running, last, ret, exc>>
    /\ UNCHANGED <<concvars, vervars, funvars, main, pref>>

NextCache ==
    \/ \E key \in Keys, value \in Values, expires_in \in TTLs : Add(key, value, expires_in)
    \/ \E key \in Keys : Get(key)
    \/ \E key \in Keys : Delete(key)
    \/ Save
    \/ DeleteExpired
    \/ Shutdown
    \/ Restart
    \/ Tick

(* ----------------------- a batch of workers: actions ------------------- *)

\* the key a worker calls add, get and delete with: the workers' keys are
\* pairwise disjoint; the URLs are shared
OwnKey(w) == IF w = "w1" THEN "a" ELSE "b"

\* the response the registry gives for a URL
Response(url) == "resp"

Free == "free"

\* globals.init(): lock = mp.RLock()
InitLock == [owner |-> Free, depth |-> 0]

Idle == [pc |-> "idle", op |-> "", key |-> "", value |-> "", n |-> 0,
         pos |-> 0, used |-> 0, entry |-> <<>>, ret |-> None, exc |-> None,
         mine |-> <<>>]

InitConc ==
    /\ lock = InitLock
    /\ wk = [w \in Workers |-> Idle]
    /\ fetched = [url \in URLs |-> 0]
    /\ added = [key \in Keys \cup URLs |-> {}]

\* the call of worker w returns (or raises): the worker is ready for its next call
Return(w, r, e, mine) ==
    [wk[w] EXCEPT !.pc = "idle", !.n = @ + 1, !.ret = r, !.exc = e, !.mine = mine]

\* `with globals.lock:` is entered: RLock.acquire() by w, which waits while
\* another worker owns the lock
acquire(w) ==
    /\ lock.owner \in {Free, w}
    /\ lock' = [owner |-> w, depth |-> lock.depth + 1]

\* the `with globals.lock:` block is left: RLock.release()
release(w) ==
    lock' = IF lock.depth = 1
            THEN [owner |-> Free, depth |-> 0]
            ELSE [lock EXCEPT !.depth = @ - 1]

\* the call of worker w raises: the exception ends the worker's task
Raise(w, e) == [wk[w] EXCEPT !.pc = "raised", !.exc = e]

\* worker w calls cache.get(OwnKey(w))
CallGet(w) ==
    /\ wk[w].pc = "idle" /\ wk[w].n < MaxOps
    /\ wk' = [wk EXCEPT ![w] = [@ EXCEPT !.pc = "get_lock", !.op = "get",
                                         !.key = OwnKey(w), !.value = ""]]
    /\ UNCHANGED <<cachevars, lock, fetched, added>>
    /\ UNCHANGED <<vervars, funvars, main, pref>>

\* worker w calls cache.add(OwnKey(w), value)
CallAdd(w, value) ==
    /\ wk[w].pc = "idle" /\ wk[w].n < MaxOps
    /\ wk' = [wk EXCEPT ![w] = [@ EXCEPT !.pc = "add_lock", !.op = "add",
                                         !.key = OwnKey(w), !.value = value]]
    /\ UNCHANGED <<cachevars, lock, fetched, added>>
    /\ UNCHANGED <<vervars, funvars, main, pref>>

\* worker w calls cache.delete(OwnKey(w))
CallDelete(w) ==
    /\ wk[w].pc = "idle" /\ wk[w].n < MaxOps
    /\ wk' = [wk EXCEPT ![w] = [@ EXCEPT !.pc = "delete_lock", !.op = "delete",
                                         !.key = OwnKey(w), !.value = ""]]
    /\ UNCHANGED <<cachevars, lock, fetched, added>>
    /\ UNCHANGED <<vervars, funvars, main, pref>>

\* worker w calls cache.save(): the loop makes its iterator over self.index.items()
CallSave(w) ==
    /\ wk[w].pc = "idle" /\ wk[w].n < MaxOps
    /\ wk' = [wk EXCEPT ![w] = [@ EXCEPT !.pc = "save_loop", !.op = "save",
                                         !.key = "", !.value = "",
                                         !.pos = 1, !.used = Len(index)]]
    /\ UNCHANGED <<cachevars, lock, fetched, added>>
    /\ UNCHANGED <<vervars, funvars, main, pref>>

\* worker w calls CachedHttpClient.get(url), which starts with self.cache.get(url)
CallHttpGet(w, url) ==
    /\ wk[w].pc = "idle" /\ wk[w].n < MaxOps
    /\ wk' = [wk EXCEPT ![w] = [@ EXCEPT !.pc = "get_lock", !.op = "http",
                                         !.key = url, !.value = ""]]
    /\ UNCHANGED <<cachevars, lock, fetched, added>>
    /\ UNCHANGED <<vervars, funvars, main, pref>>

\* Cache.get, Cache.add, Cache.__delete: `with globals.lock:`
Acquire(w) ==
    /\ wk[w].pc \in {"get_lock", "add_lock", "delete_lock"}
    /\ acquire(w)
    /\ wk' = [wk EXCEPT ![w].pc = CASE @ = "get_lock" -> "get_body"
                                    [] @ = "add_lock" -> "add_body"
                                    [] @ = "delete_lock" -> "delete_body"]
    /\ UNCHANGED <<cachevars, fetched, added>>
    /\ UNCHANGED <<vervars, funvars, main, pref>>

\* Cache.get: the body of the with block, and leaving it
GetBody(w) ==
    /\ wk[w].pc = "get_body"
    /\ LET r == get(index, disk, now, hashkey(wk[w].key))
       IN  /\ index' = r.index
           /\ disk' = r.disk
           /\ wk' = [wk EXCEPT ![w] =
                        IF wk[w].op = "http" /\ r.ret = None
                        THEN \* `if response := self.cache.get(url)` fails
                             [@ EXCEPT !.pc = "fetch"]
                        ELSE Return(w, r.ret, None, wk[w].mine)]
    /\ release(w)
    /\ UNCHANGED <<now, running, last, ret, exc, fetched, added>>
    /\ UNCHANGED <<vervars, funvars, main, pref>>

\* CachedHttpClient.get: self.session.get(url) and raise_for_status() pass
Fetch(w) ==
    /\ wk[w].pc = "fetch"
    /\ fetched' = [fetched EXCEPT ![wk[w].key] = @ + 1]
    /\ wk' = [wk EXCEPT ![w] = [@ EXCEPT !.pc = "add_lock",
                                         !.value = Response(wk[w].key)]]
    /\ UNCHANGED <<cachevars, lock, added>>
    /\ UNCHANGED <<vervars, funvars, main, pref>>

\* CachedHttpClient.get: self.session.get(url), and raise_for_status() raises
FetchFails(w) ==
    /\ wk[w].pc = "fetch"
    /\ fetched' = [fetched EXCEPT ![wk[w].key] = @ + 1]
    /\ wk' = [wk EXCEPT ![w] = Raise(w, "HTTPError")]
    /\ UNCHANGED <<cachevars, lock, added>>
    /\ UNCHANGED <<vervars, funvars, main, pref>>

\* Cache.add, in the with block: an entry the index has for the key is
\* deleted (Cache.__delete takes the lock its caller holds, and gives it back)
AddDelete(w) ==
    /\ wk[w].pc = "add_body"
    /\ LET r == delete_old(index, disk, hashkey(wk[w].key))
       IN  /\ index' = r.index
           /\ disk' = r.disk
    /\ wk' = [wk EXCEPT ![w].pc = "add_insert"]
    /\ UNCHANGED <<now, running, last, ret, exc, lock, fetched, added>>
    /\ UNCHANGED <<vervars, funvars, main, pref>>

\* Cache.add, in the with block: the new entry is put in the index; the
\* block is left.  CachedHttpClient.get then returns the response.
AddInsert(w) ==
    /\ wk[w].pc = "add_insert"
    /\ index' = IndexSet(index,
                         new_entry(now, hashkey(wk[w].key), wk[w].value,
                                   IF wk[w].op = "http"
                                   THEN <<ClientExpiryDays>> ELSE <<>>))
    /\ added' = [added EXCEPT ![wk[w].key] = @ \cup {wk[w].value}]
    /\ wk' = [wk EXCEPT ![w] =
                 Return(w, IF wk[w].op = "http" THEN wk[w].value ELSE None, None,
                        IF wk[w].op = "http" THEN wk[w].mine ELSE <<wk[w].value>>)]
    /\ release(w)
    /\ UNCHANGED <<disk, now, running, last, ret, exc, fetched>>
    /\ UNCHANGED <<vervars, funvars, main, pref>>

\* Cache.__delete: the body of the with block, and leaving it
DeleteBody(w) ==
    /\ wk[w].pc = "delete_body"
    /\ LET r == delete(index, disk, hashkey(wk[w].key))
       IN  /\ index' = r.index
           /\ disk' = r.disk
    /\ wk' = [wk EXCEPT ![w] = Return(w, None, None, <<>>)]
    /\ release(w)
    /\ UNCHANGED <<now, running, last, ret, exc, fetched, added>>
    /\ UNCHANGED <<vervars, funvars, main, pref>>

\* Cache.save, which takes no lock: `for _, entry in self.index.items()`
\* takes the next entry, and entry.save() looks whether its file exists.
\* The iterator raises when the dict has not the size it had at the start,
\* and takes the entry at its position otherwise.
SaveLoop(w) ==
    /\ wk[w].pc = "save_loop"
    /\ wk' = [wk EXCEPT ![w] =
                 IF Len(index) # wk[w].used
                 THEN Raise(w, "RuntimeError")
                 ELSE IF wk[w].pos > Len(index)
                 THEN Return(w, None, None, wk[w].mine)
                 ELSE IF exists(disk, filename(index[wk[w].pos]))
                 THEN [@ EXCEPT !.pos = @ + 1]
                 ELSE [@ EXCEPT !.pos = @ + 1, !.pc = "save_write",
                                !.entry = <<index[wk[w].pos]>>]]
    /\ UNCHANGED <<cachevars, lock, fetched, added>>
    /\ UNCHANGED <<vervars, funvars, main, pref>>

\* CacheEntry.save: the file of the entry is written
SaveWrite(w) ==
    /\ wk[w].pc = "save_write"
    /\ disk' = write(wk[w].entry[1], disk)
    /\ wk' = [wk EXCEPT ![w] = [@ EXCEPT !.pc = "save_loop", !.entry = <<>>]]
    /\ UNCHANGED <<index, now, running, last, ret, exc, lock, fetched, added>>
    /\ UNCHANGED <<vervars, funvars, main, pref>>

NextConc ==
    \/ \E w \in Workers : CallGet(w)
    \/ \E w \in Workers, value \in Values : CallAdd(w, value)
    \/ \E w \in Workers : CallDelete(w)
    \/ \E w \in Workers : CallSave(w)
    \/ \E w \in Workers, url \in URLs : CallHttpGet(w, url)
    \/ \E w \in Workers : Acquire(w)
    \/ \E w \in Workers : GetBody(w)
    \/ \E w \in Workers : Fetch(w)
    \/ \E w \in Workers : FetchFails(w)
    \/ \E w \in Workers : AddDelete(w)
    \/ \E w \in Workers : AddInsert(w)
    \/ \E w \in Workers : DeleteBody(w)
    \/ \E w \in Workers : SaveLoop(w)
    \/ \E w \in Workers : SaveWrite(w)

(* ------------------------------- Version ------------------------------- *)

Digits == <<"0", "1", "2", "3", "4", "5", "6", "7", "8", "9">>

RECURSIVE str(_)
\* str(n) of a non-negative int, as the sequence of its characters
str(n) == IF n < 10 THEN <<Digits[n + 1]>> ELSE str(n \div 10) \o <<Digits[(n % 10) + 1]>>

\* the release suffixes drawn: None (as the empty text, which Version.text
\* treats alike), and texts kept with their delimiter
Releases == {<<>>, <<"-", "rc">>, <<"+", "b1">>}

\* Version: major, minor, patch, release
Versions ==
    [major : 0..MaxNum, minor : 0..MaxNum, patch : 0..MaxNum, release : Releases]

\* a Version without release suffix
Plain(major, minor, patch) ==
    [major |-> major, minor |-> minor, patch |-> patch, release |-> <<>>]

\* Version.text
text(v) ==
    str(v.major) \o <<".">> \o str(v.minor) \o <<".">> \o str(v.patch)
        \o (IF v.release # <<>> THEN v.release ELSE <<>>)

\* Version.__eq__
Version_eq(self, value) == text(self) = text(value)

Version_gt_major(self, value) == self.major > value.major

\* Version.__gt__
Version_gt(self, value) ==
    IF Version_eq(self, value) THEN FALSE
    ELSE IF self.major > value.major THEN TRUE
    ELSE IF self.major = value.major
    THEN IF self.minor > value.minor THEN TRUE
         ELSE self.minor = value.minor /\ self.patch > value.patch
    ELSE FALSE

\* Version.__lt__
Version_lt(self, value) ==
    IF Version_eq(self, value) THEN FALSE ELSE ~Version_gt(self, value)

\* Version.__ge__
Version_ge(self, value) == Version_eq(self, value) \/ Version_gt(self, value)

\* Version.__le__
Version_le(self, value) == Version_eq(self, value) \/ Version_lt(self, value)

InitVer ==
    /\ va \in Versions
    /\ vb \in Versions
    /\ cmp = <<>>

\* va and vb are compared, each way round
Compare ==
    /\ cmp = <<>>
    /\ cmp' = <<[eq |-> Version_eq(va, vb),
                 lt |-> Version_lt(va, vb), gt |-> Version_gt(va, vb),
                 le |-> Version_le(va, vb), ge |-> Version_ge(va, vb),
                 rlt |-> Version_lt(vb, va), rgt |-> Version_gt(vb, va)]>>
    /\ UNCHANGED <<va, vb>>
    /\ UNCHANGED <<cachevars, concvars, funvars, main, pref>>

NextVer == Compare

(* ---------------------------- Version.create --------------------------- *)

\* str.lstrip() and str.rstrip(), of blanks
RECURSIVE lstrip(_)
lstrip(s) == IF s # <<>> /\ Head(s) = " " THEN lstrip(Tail(s)) ELSE s

RECURSIVE rstrip(_)
rstrip(s) ==
    IF s # <<>> /\ s[Len(s)] = " " THEN rstrip(SubSeq(s, 1, Len(s) - 1)) ELSE s

\* str.strip()
strip(s) == rstrip(lstrip(s))

\* the place of the first c in s, or 0
find(s, c) ==
    IF \E i \in 1..Len(s) : s[i] = c
    THEN CHOOSE i \in 1..Len(s) : s[i] = c /\ \A j \in 1..(i - 1) : s[j] # c
    ELSE 0

\* str.split(c, maxsplit=1)
split1(s, c) ==
    LET i == find(s, c)
    IN  IF i = 0 THEN <<s>>
        ELSE <<SubSeq(s, 1, i - 1), SubSeq(s, i + 1, Len(s))>>

\* str.split(c)
RECURSIVE split(_, _)
split(s, c) ==
    LET i == find(s, c)
    IN  IF i = 0 THEN <<s>>
        ELSE <<SubSeq(s, 1, i - 1)>> \o split(SubSeq(s, i + 1, Len(s)), c)

IsDigit(c) == \E n \in 0..9 : Digits[n + 1] = c

RECURSIVE DigitsValue(_)
DigitsValue(s) ==
    IF s = <<>> THEN 0
    ELSE DigitsValue(SubSeq(s, 1, Len(s) - 1)) * 10
            + (CHOOSE n \in 0..9 : Digits[n + 1] = s[Len(s)])

\* int(s): <<n>>, or <<>> where int raises ValueError; blanks around the
\* number and one sign before it are accepted
int(s) ==
    LET t == strip(s)
        signed == t # <<>> /\ t[1] \in {"+", "-"}
        body == IF signed THEN Tail(t) ELSE t
    IN  IF body # <<>> /\ \A i \in 1..Len(body) : IsDigit(body[i])
        THEN <<(IF signed /\ t[1] = "-" THEN -1 ELSE 1) * DigitsValue(body)>>
        ELSE <<>>

\* how a call ends: with an exception, or with a value
Raised(e) == [exc |-> e, ret |-> None]
Returned(v) == [exc |-> None, ret |-> v]

\* Version.create
create(version_str) ==
    LET byminus == split1(strip(version_str), "-")
        release_delimiter == IF Len(byminus) = 1 THEN "+" ELSE "-"
        halves == IF Len(byminus) = 1 THEN split1(byminus[1], "+") ELSE byminus
        suffix == IF Len(halves) > 1 THEN <<release_delimiter>> \o halves[2]
                  ELSE <<>>
        parts == split(halves[1], ".")
    IN  IF Len(parts) > 4 THEN Raised("ValueError")
        ELSE IF Len(parts) < 2 THEN Raised("UnboundLocalError")
        ELSE LET major == int(parts[1])
                 minor == int(parts[2])
                 patch == IF Len(parts) >= 3 THEN parts[3] ELSE <<>>
                 fourth == IF Len(parts) = 4 THEN <<".">> \o parts[4]
                           ELSE suffix
             IN  IF major = <<>> \/ minor = <<>> THEN Raised("ValueError")
                 ELSE IF patch # <<>> /\ int(patch) = <<>>
                 THEN Raised("ValueError")
                 ELSE Returned([major |-> major[1], minor |-> minor[1],
                                patch |-> IF patch # <<>> THEN int(patch)[1]
                                          ELSE 0,
                                release |-> fourth])

\* Version.copy
copy(v) == create(text(v)).ret

\* the release suffixes of the texts drawn: those of Releases, and ones
\* that hold the other delimiter or a dot
ReleaseTexts ==
    Releases \cup {<<"+", "b1", "-", "rc">>, <<"-", "rc", "+", "b1">>,
                   <<"-", "rc", ".", "1">>}

\* the version texts drawn: major.minor[.patch][release]
VersionInputs ==
    [major : 0..MaxNum, minor : 0..MaxNum,
     patch : {<<>>} \cup {<<n>> : n \in 0..MaxNum}, release : ReleaseTexts]

InputText(i) ==
    str(i.major) \o <<".">> \o str(i.minor)
        \o (IF i.patch # <<>> THEN <<".">> \o str(i.patch[1]) ELSE <<>>)
        \o i.release

\* Version.create is called with the text drawn
Create ==
    /\ res = <<>>
    /\ res' = <<create(InputText(arg))>>
    /\ UNCHANGED arg
    /\ UNCHANGED <<cachevars, concvars, vervars, main, pref>>

NextCreate == Create

(* ----------------------------- VersionRange ---------------------------- *)

\* VersionRange.__init__; a bound is <<>> (None) or <<version>>
VersionRange(minimum, maximum, min_inclusive, max_inclusive) ==
    [minimum |-> minimum, maximum |-> maximum,
     min_inclusive |-> min_inclusive, max_inclusive |-> max_inclusive]

\* str.startswith and str.endswith, of one character
startswith(s, c) == s # <<>> /\ s[1] = c
endswith(s, c) == s # <<>> /\ s[Len(s)] = c

\* VersionRange.from_rangestring
from_rangestring(rangestr) ==
    LET min_inclusive == ~startswith(rangestr, "(")
        max_inclusive == ~endswith(rangestr, ")")
        pieces == split(rangestr, ",")
        parts == [i \in 1..Len(pieces) |-> strip(pieces[i])]
        Range(minimum, maximum) ==
            Returned(VersionRange(minimum, maximum, min_inclusive, max_inclusive))
    IN  IF Len(parts) = 1
        THEN LET versionstr == parts[1]
             IN  IF find(versionstr, "[") # 0 /\ find(versionstr, "]") # 0
                 THEN LET version ==
                              create(SubSeq(versionstr, 2, Len(versionstr) - 1))
                      IN  IF version.exc # None THEN version
                          ELSE Range(<<version.ret>>, <<version.ret>>)
                 \* Version.create(version): the local is read before it is bound
                 ELSE Raised("UnboundLocalError")
        ELSE IF Len(parts) = 2
        THEN LET left == parts[1]
                 right == parts[2]
                 lower == create(Tail(left))
                 upper == create(SubSeq(right, 1, Len(right) - 1))
             IN  IF left = <<"(">> /\ right = <<")">> THEN Range(<<>>, <<>>)
                 ELSE IF left = <<"(">> \/ left = <<"[">>
                 THEN IF upper.exc # None THEN upper
                      ELSE Range(<<>>, <<upper.ret>>)
                 ELSE IF right = <<")">>
                 THEN IF lower.exc # None THEN lower
                      ELSE Range(<<lower.ret>>, <<>>)
                 ELSE IF lower.exc # None THEN lower
                 ELSE IF upper.exc # None THEN upper
                 ELSE Range(<<lower.ret>>, <<upper.ret>>)
        ELSE Range(<<>>, <<>>)

\* the versions drawn as bounds of a range text
BoundTexts == {text(Plain(0, 0, p)) : p \in 0..MaxNum}

\* a range text drawn, by its pieces
RangeInput(shape, open, left, right, third, close) ==
    [shape |-> shape, open |-> open, left |-> left, right |-> right,
     third |-> third, close |-> close]

\* the range texts drawn: a bare version, [version], an interval with two
\* bounds of which each may be empty, a text with two commas, and two
\* versions without brackets
RangeInputs ==
    {RangeInput("bare", <<>>, l, <<>>, <<>>, <<>>) : l \in BoundTexts}
    \cup {RangeInput("exact", <<"[">>, l, <<>>, <<>>, <<"]">>) : l \in BoundTexts}
    \cup {RangeInput("interval", o, l, r, <<>>, c) :
              o \in {<<"[">>, <<"(">>}, l \in BoundTexts \cup {<<>>},
              r \in BoundTexts \cup {<<>>}, c \in {<<"]">>, <<")">>}}
    \cup {RangeInput("commas", o, l, r, t, c) :
              o \in {<<"[">>, <<"(">>, <<>>}, l \in BoundTexts, r \in BoundTexts,
              t \in BoundTexts, c \in {<<"]">>, <<")">>, <<>>}}
    \cup {RangeInput("nobrackets", <<>>, l, r, <<>>, <<>>) :
              l \in BoundTexts \cup {<<"1">> \o b : b \in BoundTexts},
              r \in BoundTexts \cup {b \o <<"0">> : b \in BoundTexts}}

\* the text of a range input, written with ", " between its bounds
RangeText(i) ==
    i.open \o i.left
        \o (IF i.shape \in {"bare", "exact"} THEN <<>> ELSE <<",", " ">> \o i.right)
        \o (IF i.shape = "commas" THEN <<",", " ">> \o i.third ELSE <<>>)
        \o i.close

\* VersionRange.from_rangestring is called with the text drawn
FromRangestring ==
    /\ res = <<>>
    /\ res' = <<from_rangestring(RangeText(arg))>>
    /\ UNCHANGED arg
    /\ UNCHANGED <<cachevars, concvars, vervars, main, pref>>

NextRangeText == FromRangestring

\* VersionRange.inrange
inrange(self, version) ==
    IF self.minimum # <<>> /\ Version_eq(self.minimum[1], version)
    THEN self.min_inclusive
    ELSE IF self.minimum # <<>> /\ Version_gt(self.minimum[1], version)
    THEN FALSE
    ELSE IF self.maximum # <<>> /\ Version_eq(self.maximum[1], version)
    THEN self.max_inclusive
    ELSE IF self.maximum # <<>> /\ Version_lt(self.maximum[1], version)
    THEN FALSE
    ELSE TRUE

\* the first part without the inclusive tests: the larger minimum, or the
\* only one
step1_unmarked(self, other) ==
    IF self.minimum # <<>> /\ other.minimum # <<>>
    THEN IF Version_gt(self.minimum[1], other.minimum[1])
         THEN <<copy(self.minimum[1])>>
         ELSE <<copy(other.minimum[1])>>
    ELSE IF self.minimum # <<>> THEN <<copy(self.minimum[1])>>
    ELSE IF other.minimum # <<>> THEN <<copy(other.minimum[1])>>
    ELSE <<>>

\* VersionRange.common_minimum_version, its first part: the minimum chosen
\* from the two minimums, <<>> for None
step1(self, other) ==
    LET both ==
            IF self.minimum # <<>> /\ other.minimum # <<>>
            THEN IF Version_gt(self.minimum[1], other.minimum[1])
                        /\ self.min_inclusive
                 THEN <<copy(self.minimum[1])>>
                 ELSE IF Version_lt(self.minimum[1], other.minimum[1])
                            /\ other.min_inclusive
                 THEN <<copy(other.minimum[1])>>
                 ELSE <<>>
            ELSE <<>>
        mine ==
            IF self.minimum # <<>> /\ other.minimum = <<>> /\ self.min_inclusive
            THEN <<copy(self.minimum[1])>>
            ELSE both
    IN  IF other.minimum # <<>> /\ self.minimum = <<>> /\ other.min_inclusive
        THEN <<copy(other.minimum[1])>>
        ELSE mine

\* VersionRange.common_minimum_version, its second part: the minimum of the
\* first part against the two maximums
step2(self, other, minimum) ==
    IF self.maximum # <<>> /\ other.maximum # <<>>
    THEN IF minimum # <<>>
         THEN LET first ==
                      IF Version_le(self.maximum[1], minimum[1])
                            /\ self.max_inclusive
                      THEN <<copy(self.maximum[1])>>
                      ELSE minimum
              IN  IF Version_le(other.maximum[1], first[1])
                        /\ other.max_inclusive
                  THEN <<copy(other.maximum[1])>>
                  ELSE first
         ELSE IF Version_lt(self.maximum[1], other.maximum[1])
                    /\ self.max_inclusive
         THEN <<copy(self.maximum[1])>>
         ELSE IF Version_gt(self.maximum[1], other.maximum[1])
                    /\ other.max_inclusive
         THEN <<copy(other.maximum[1])>>
         ELSE minimum
    ELSE minimum

\* VersionRange.common_minimum_version
common_minimum_version(self, other) == step2(self, other, step1(self, other))

\* the versions drawn as bounds of a range and as the version looked up
RangeVersions ==
    [major : {0}, minor : {0}, patch : 0..MaxNum,
     release : {<<>>, <<"-", "rc">>}]

Bounds == {<<>>} \cup {<<v>> : v \in RangeVersions}

\* the ranges drawn: those with minimum <= maximum where both are present
Ranges ==
    {r \in [minimum : Bounds, maximum : Bounds,
            min_inclusive : BOOLEAN, max_inclusive : BOOLEAN] :
        r.minimum # <<>> /\ r.maximum # <<>> =>
            \/ r.minimum = r.maximum
            \/ r.minimum[1].patch < r.maximum[1].patch}

\* self.inrange(version) is called
InRange ==
    /\ res = <<>>
    /\ res' = <<[fn |-> "inrange", minimum |-> <<>>,
                 inrange |-> inrange(arg.self, arg.version)]>>
    /\ UNCHANGED arg
    /\ UNCHANGED <<cachevars, concvars, vervars, main, pref>>

\* self.common_minimum_version(other) is called
CommonMinimumVersion ==
    /\ res = <<>>
    /\ res' = <<[fn |-> "common_minimum_version",
                 minimum |-> common_minimum_version(arg.self, arg.other),
                 inrange |-> FALSE]>>
    /\ UNCHANGED arg
    /\ UNCHANGED <<cachevars, concvars, vervars, main, pref>>

NextRange == InRange \/ CommonMinimumVersion

(* ------------------------------ get_metadata --------------------------- *)

\* the URLs of the catalog pages of a package, by the place of their item in
\* the registration index
PageUrls == <<"page1", "page2">>

\* IndexItem.create: the attributes an IndexItem has (commit_id and
\* commit_timestamp left out); VersionRange(lower, upper) is inclusive
IndexItem(url, lower, upper) ==
    [url |-> url, count |-> 1,
     version_range |-> VersionRange(<<lower>>, <<upper>>, TRUE, TRUE)]

\* CatalogItem.create: the item with its CatalogEntry
CatalogItem(version) == [entry |-> [version |-> version]]

\* obj.name of an object or None: <<>> where it raises AttributeError
getattr(obj, name) ==
    IF obj # <<>> /\ name \in DOMAIN obj[1] THEN <<obj[1][name]>> ELSE <<>>

\* get_metadata.find_metadata: the first item whose range has the version
find_metadata(items, version) ==
    LET hits == {i \in 1..Len(items) : inrange(items[i].version_range, version)}
    IN  IF hits = {} THEN <<>>
        ELSE <<items[CHOOSE i \in hits : \A j \in hits : i <= j]>>

\* the items of the pages, page after page
RECURSIVE items_of(_)
items_of(pages) ==
    IF pages = <<>> THEN <<>> ELSE Head(pages) \o items_of(Tail(pages))

\* get_metadata.find_catalogitem: the first item with the version's text
find_catalogitem(catalog_pages, version) ==
    LET items == items_of(catalog_pages)
        hits == {i \in 1..Len(items) :
                    text(items[i].entry.version) = text(version)}
    IN  IF hits = {} THEN <<>>
        ELSE <<items[CHOOSE i \in hits : \A j \in hits : i <= j]>>

\* get_metadata.get_catalogpages: reads index_item.metadata.url and fetches
\* the document there, drawn as one catalog:CatalogPage
get_catalogpages(responses, index_item) ==
    LET metadata == getattr(index_item, "metadata")
        url == getattr(metadata, "url")
    IN  IF metadata = <<>> THEN Raised("AttributeError")
        ELSE IF url = <<>> THEN Raised("AttributeError")
        ELSE Returned(<<responses[url[1]]>>)

\* NugetClient.get_metadata, on what the registry answers for the package
get_metadata(registry, package_version) ==
    LET version == create(package_version)
        metadata == find_metadata(registry.index, version.ret)
        catalogpages == get_catalogpages(registry.responses, metadata)
    IN  IF version.exc # None THEN version
        ELSE IF catalogpages.exc # None THEN catalogpages
        ELSE Returned(find_catalogitem(catalogpages.ret, version.ret))

\* the lower and upper version of the items drawn
ItemBounds ==
    {b \in RangeVersions \X RangeVersions :
        b[1] = b[2] \/ b[1].patch < b[2].patch}

\* the registration indexes drawn: up to two items
Indexes ==
    {<<>>}
    \cup {<<IndexItem(PageUrls[1], a[1], a[2])>> : a \in ItemBounds}
    \cup {<<IndexItem(PageUrls[1], a[1], a[2]),
            IndexItem(PageUrls[2], b[1], b[2])>> : a \in ItemBounds, b \in ItemBounds}

\* the catalog pages drawn: no item or one
CatalogPages == {<<>>} \cup {<<CatalogItem(v)>> : v \in RangeVersions}

\* client.get_metadata(package_name, package_version) is called
GetMetadata ==
    /\ res = <<>>
    /\ res' = <<get_metadata(arg, text(arg.package_version))>>
    /\ UNCHANGED arg
    /\ UNCHANGED <<cachevars, concvars, vervars, main, pref>>

NextMetadata == GetMetadata

(* --------------------------- PackageReference -------------------------- *)

\* the texts of an attribute value; "" is the empty text
AttrValues == {"", "1.0", "2.0"}

\* an attribute of the element, or an assigned value: <<>> is absent (None)
OptValues == {<<>>} \cup {<<v>> : v \in AttrValues}

\* element.attrib, of which the code reads 'Version' and 'VersionOverride'
Attribs == [Version : OptValues, VersionOverride : OptValues]

\* bool(value) of a str | None: None and '' are false
truthy(value) == value # <<>> /\ value[1] # ""

\* PackageReference.version (setter): self.version_override is
\* self.xml.get('VersionOverride')
version_setter(attrib, value) ==
    IF truthy(value) /\ ~truthy(attrib.VersionOverride)
    THEN [attrib EXCEPT !.Version = value]
    ELSE IF ~truthy(value) /\ attrib.Version # <<>>
    THEN [attrib EXCEPT !.Version = <<>>]
    ELSE attrib

\* PackageReference.version_override (setter), for a value that is a str or
\* None
version_override_setter(attrib, value) ==
    IF attrib.VersionOverride # <<>> /\ ~truthy(value)
    THEN [attrib EXCEPT !.VersionOverride = <<>>]
    ELSE IF truthy(value)
    THEN [attrib EXCEPT !.VersionOverride = value, !.Version = <<>>]
    ELSE attrib

\* PackageReference.create(element, item_group): pref.version =
\* element.get('Version')
PackageReference_create(attrib) == version_setter(attrib, attrib.Version)

\* what `pref` holds: the attributes the element started with, those it has
\* now, and of the last assignment its name, its value and the attributes it
\* found
Pref(start, xml, op, value, before) ==
    [start |-> start, xml |-> xml, op |-> op, value |-> value, before |-> before]

NoAttrib == [Version |-> <<>>, VersionOverride |-> <<>>]

NoPref == Pref(NoAttrib, NoAttrib, "", <<>>, NoAttrib)

\* an element of the parsed project file
InitElement == \E attrib \in Attribs : pref = Pref(attrib, attrib, "parsed", <<>>, attrib)

\* pref = PackageReference.create(elem, ig)
CreatePref ==
    /\ pref.op = "parsed"
    /\ pref' = Pref(pref.start, PackageReference_create(pref.xml), "create",
                    pref.xml.Version, pref.xml)
    /\ UNCHANGED <<cachevars, concvars, vervars, funvars, main>>

\* pref.version = value
SetVersion(value) ==
    /\ pref.op \notin {"", "parsed"}
    /\ pref' = Pref(pref.start, version_setter(pref.xml, value), "version",
                    value, pref.xml)
    /\ UNCHANGED <<cachevars, concvars, vervars, funvars, main>>

\* pref.version_override = value
SetVersionOverride(value) ==
    /\ pref.op \notin {"", "parsed"}
    /\ pref' = Pref(pref.start, version_override_setter(pref.xml, value),
                    "version_override", value, pref.xml)
    /\ UNCHANGED <<cachevars, concvars, vervars, funvars, main>>

NextPref ==
    \/ CreatePref
    \/ \E value \in OptValues : SetVersion(value)
    \/ \E value \in OptValues : SetVersionOverride(value)

(* ------------------------ the program: __main__ ------------------------ *)

\* globals.lock while globals.init() has not been called: the module globals
\* has no attribute of that name
Unbound == [owner |-> "unbound", depth |-> 0]

\* the days the files found in the cache directory expire on
FileDays == 0..(MaxNow + 1)

\* the files an earlier run of the program can have saved for a key
SavedFiles(key, value) ==
    {{}} \cup {write(CacheEntry(hashkey(key), value, e), {}) : e \in FileDays}

\* the cache directories ('./cache') a run of the program can find
CacheDirs == {U \cup A : U \in SavedFiles("u", Response("u")), A \in SavedFiles("a", "v1")}

\* the interpreter has loaded main.py and its imports: globals is imported by
\* nugetclient.py, no client exists yet
InitProgram ==
    /\ main = "start"
    /\ lock = Unbound
    /\ wk = [w \in Workers |-> Idle]
    /\ fetched = [url \in URLs |-> 0]
    /\ added = [key \in Keys \cup URLs |-> {}]
    /\ index = <<>>
    /\ disk \in CacheDirs
    /\ now \in 0..MaxNow
    /\ running = FALSE
    /\ last = [op |-> "init", key |-> "", value |-> "", expires_in |-> <<>>,
               at |-> 0, index |-> <<>>, disk |-> {}]
    /\ ret = None
    /\ exc = None

\* prefs = get_package_references('test.xml')
GetPackageReferences ==
    /\ main = "start"
    /\ main' = "prefs"
    /\ UNCHANGED <<cachevars, concvars, vervars, funvars, pref>>

\* client = NugetClient(): CachedHttpClient(cache_dirpath) builds the Cache
\* from the directory, then __get_index() calls httpclient.get(url), whose
\* cache.get(url) enters `with globals.lock:`
NewNugetClient ==
    /\ main = "prefs"
    /\ \E idx \in Rebuilds(disk) :
          /\ last' = [op |-> "get", key |-> "u", value |-> "", expires_in |-> <<>>,
                      at |-> now, index |-> idx, disk |-> disk]
          /\ IF lock = Unbound
             THEN /\ index' = idx
                  /\ disk' = disk
                  /\ exc' = "AttributeError"
                  /\ main' = "raised"
                  /\ UNCHANGED fetched
             ELSE LET g == get(idx, disk, now, hashkey("u"))
                      a == IF g.ret # None
                           THEN g
                           ELSE add(g.index, g.disk, now, hashkey("u"),
                                    Response("u"), <<ClientExpiryDays>>)
                  IN  /\ index' = a.index
                      /\ disk' = a.disk
                      /\ exc' = None
                      /\ main' = "client"
                      /\ fetched' = IF g.ret # None
                                    THEN fetched
                                    ELSE [fetched EXCEPT !["u"] = @ + 1]
    /\ ret' = None
    /\ running' = TRUE
    /\ UNCHANGED <<now, lock, wk, added>>
    /\ UNCHANGED <<vervars, funvars, pref>>

\* the run of main.py as __main__, up to the creation of the pool; the
\* CachedHttpClient is finalized when the last reference to it goes
NextProgram ==
    \/ GetPackageReferences
    \/ NewNugetClient
    \/ Shutdown

(* ---------------------------- specifications --------------------------- *)

vars == <<index, disk, now, running, last, ret, exc, lock, wk, fetched, added,
          va, vb, cmp, arg, res, main, pref>>

V0 == [major |-> 0, minor |-> 0, patch |-> 0, release |-> <<>>]

\* no Version is looked at
VerIdle == va = V0 /\ vb = V0 /\ cmp = <<>>

\* no function of the models is called
FunIdle == arg = <<>> /\ res = <<>>

\* the program is not run: the modules are driven by a caller of its own
MainIdle == main = "none"

\* no PackageReference is looked at
PrefIdle == pref = NoPref

Init == InitCache /\ InitConc /\ VerIdle /\ FunIdle /\ MainIdle /\ PrefIdle

Next == NextCache

\* one caller and one cache directory
Spec == Init /\ [][Next]_vars

\* a batch of workers on one cache; no day passes during the batch
SpecConc == Init /\ [][NextConc]_vars

InitDrawn == InitCache /\ InitConc /\ InitVer /\ FunIdle /\ MainIdle /\ PrefIdle

\* the Version operators on drawn inputs
SpecVer == InitDrawn /\ [][NextVer]_vars

InitVersionText ==
    /\ InitCache /\ InitConc /\ VerIdle /\ MainIdle /\ PrefIdle
    /\ arg \in VersionInputs
    /\ res = <<>>

\* Version.create on drawn version texts
SpecCreate == InitVersionText /\ [][NextCreate]_vars

InitRangeText ==
    /\ InitCache /\ InitConc /\ VerIdle /\ MainIdle /\ PrefIdle
    /\ arg \in RangeInputs
    /\ res = <<>>

\* VersionRange.from_rangestring on drawn range texts
SpecRangeText == InitRangeText /\ [][NextRangeText]_vars

InitRange ==
    /\ InitCache /\ InitConc /\ VerIdle /\ MainIdle /\ PrefIdle
    /\ arg \in [self : Ranges, other : Ranges, version : RangeVersions]
    /\ res = <<>>

\* VersionRange.inrange and common_minimum_version on drawn ranges
SpecRange == InitRange /\ [][NextRange]_vars

InitMetadata ==
    /\ InitCache /\ InitConc /\ VerIdle /\ MainIdle /\ PrefIdle
    /\ arg \in [index : Indexes,
                responses : [{PageUrls[1], PageUrls[2]} -> CatalogPages],
                package_version : RangeVersions]
    /\ res = <<>>

\* NugetClient.get_metadata on drawn registry answers
SpecMetadata == InitMetadata /\ [][NextMetadata]_vars

InitMain == InitProgram /\ VerIdle /\ FunIdle /\ PrefIdle

SpecMain == InitMain /\ [][NextProgram]_vars

InitPref == InitCache /\ InitConc /\ VerIdle /\ FunIdle /\ MainIdle /\ InitElement

SpecPref == InitPref /\ [][NextPref]_vars

(* -------------------------------- claims ------------------------------- *)

\* the files of the directory whose name starts with keyhash
FilesOf(dsk, keyhash) == {f \in dsk : f.name[1] = keyhash}

\* the key hash of the last call
LastHash == hashkey(last.key)

\* what the index held for the key of the last call when the call was made
Hit == IndexGet(last.index, LastHash)

\* no index a Cache.init builds from the directory has an entry for keyhash
NotRebuilt(dsk, keyhash) == \A idx \in Rebuilds(dsk) : ~Has(idx, keyhash)

\* C1: after add(k, v, ttl), get(k) returns v as long as now <= expiry; once
\* now > expiry, get(k) returns absent, removes k's entry from the index and
\* deletes its backing file, and a later index rebuild has no entry for k.
\* Stated of the state add leaves (at every later day) and of every get that
\* finds an entry.
C1_GetUntilExpiry ==
    /\ last.op = "add" =>
          /\ Has(index, LastHash)
          /\ LET entry == IndexGet(index, LastHash)[1]
                 r == get(index, disk, now, LastHash)
             IN  IF now <= entry.expiry_date
                 THEN r.ret = last.value
                 ELSE /\ r.ret = None
                      /\ ~Has(r.index, LastHash)
                      /\ FilesOf(r.disk, LastHash) = {}
                      /\ NotRebuilt(r.disk, LastHash)
    /\ last.op = "get" /\ Hit # <<>> =>
          IF last.at <= Hit[1].expiry_date
          THEN ret = Hit[1].value
          ELSE /\ ret = None
               /\ ~Has(index, LastHash)
               /\ FilesOf(disk, LastHash) = {}
               /\ NotRebuilt(disk, LastHash)

\* a get found an expired entry whose file was on disk, and removed both
C1_Witness ==
    /\ last.op = "get" /\ Hit # <<>>
    /\ last.at > Hit[1].expiry_date
    /\ exists(last.disk, filename(Hit[1]))
    /\ ret = None /\ FilesOf(disk, LastHash) = {}

C3_RestartRoundTrip ==
    last.op = "save" =>
        \A idx \in Rebuilds(disk) :
            /\ \A i \in DOMAIN index :
                  now <= index[i].expiry_date =>
                      IndexGet(idx, index[i].keyhash) = <<index[i]>>
            /\ \A j \in DOMAIN idx : Has(index, idx[j].keyhash)

\* a save wrote the file of an entry added before, with the default and with
\* a given ttl, for two keys
C3_Witness ==
    /\ last.op = "save"
    /\ Len(index) = 2
    /\ \E i \in DOMAIN index : ~exists(last.disk, filename(index[i]))
    /\ \E i, j \in DOMAIN index :
          index[i].expiry_date # index[j].expiry_date /\ now <= index[i].expiry_date

Expired(idx, t) == {i \in DOMAIN idx : t > idx[i].expiry_date}

\* C8: delete_expired() completes normally and removes, from the index and
\* from disk, every entry whose expiry has passed, whatever their number,
\* and leaves every non-expired entry and its file unchanged.
C8_DeleteExpiredSweeps ==
    last.op = "delete_expired" =>
        /\ exc = None
        /\ index = SelectSeq(last.index, LAMBDA e : last.at <= e.expiry_date)
        /\ disk = {f \in last.disk :
                      \A i \in Expired(last.index, last.at) :
                          f.name # filename(last.index[i])}

\* C9: after shutdown, every non-expired entry that was in the index has a
\* backing file on disk, and no expired entry has one.
C9_ShutdownSaves ==
    last.op = "shutdown" =>
        \A i \in DOMAIN last.index :
            exists(disk, filename(last.index[i])) <=> last.at <= last.index[i].expiry_date

\* worker w is inside an operation of the cache: at a step that reads or
\* writes the index or the directory
Inside(w) ==
    wk[w].pc \in {"get_body", "add_body", "add_insert", "delete_body",
                  "save_loop", "save_write"}

\* C4: in a batch of concurrent workers sharing one cache, every distinct
\* URL is fetched from the network at most once (in a batch that no failed
\* request has ended).
C4_FetchedOnce ==
    (\A w \in Workers : wk[w].exc # "HTTPError") =>
        \A url \in URLs : fetched[url] <= 1

\* the value the index holds for a key: <<>> or <<value>>
Held(key) ==
    IF Has(index, hashkey(key)) THEN <<IndexGet(index, hashkey(key))[1].value>> ELSE <<>>

\* C5: workers calling add and get on pairwise-disjoint keys: no update is
\* lost (between a worker's calls, and so after all workers finish, the
\* index holds for its key the value of its last add, or nothing if it
\* deleted the key since), and no entry is aliased (a get for key k returns
\* only a value that was added under k).
C5_DisjointKeys ==
    \A w \in Workers :
        /\ wk[w].pc \in {"idle", "raised"} => Held(OwnKey(w)) = wk[w].mine
        /\ wk[w].pc = "idle" /\ wk[w].op = "get" /\ wk[w].ret # None =>
              wk[w].ret \in added[OwnKey(w)]

\* both workers have finished, each having added to its own key, one of them
\* twice, and the two keys hold different values
C5_Witness ==
    /\ \A w \in Workers : wk[w].pc = "idle" /\ wk[w].n = MaxOps /\ wk[w].mine # <<>>
    /\ \E w \in Workers : Cardinality(added[OwnKey(w)]) = 2
    /\ Held("a") # Held("b")

\* C6: each of get, add, delete and save holds the lock for all of its reads
\* and writes of the index and of the directory, so no two workers are ever
\* inside any two of these operations at the same time.
C6_MutualExclusion ==
    /\ \A w \in Workers : Inside(w) => lock.owner = w
    /\ \A w1, w2 \in Workers : w1 # w2 => ~(Inside(w1) /\ Inside(w2))

SameNumbers(a, b) == a.major = b.major /\ a.minor = b.minor /\ a.patch = b.patch

\* C10: for any two versions a and b with equal (major, minor, patch) and
\* different release suffixes, none of a < b, b < a, a > b, b > a holds,
\* while a == b is false.
C10_SuffixUnordered ==
    cmp # <<>> /\ SameNumbers(va, vb) /\ va.release # vb.release =>
        /\ ~cmp[1].lt /\ ~cmp[1].rlt
        /\ ~cmp[1].gt /\ ~cmp[1].rgt
        /\ ~cmp[1].eq

\* the (major, minor, patch) triple of a is lexicographically smaller than b's
TripleLess(a, b) ==
    \/ a.major < b.major
    \/ a.major = b.major /\ a.minor < b.minor
    \/ a.major = b.major /\ a.minor = b.minor /\ a.patch < b.patch

SameTriple(a, b) == a.major = b.major /\ a.minor = b.minor /\ a.patch = b.patch

\* C11: for two versions whose (major, minor, patch) triples differ, a < b
\* holds iff a's triple is lexicographically smaller than b's, and exactly
\* one of a < b and a > b holds (so 1.2.3 < 1.2.4 < 1.3.0 < 2.0.0); for any
\* two versions, a == b holds iff their canonical texts are equal.
C11_TripleOrder ==
    /\ cmp # <<>> =>
          /\ ~SameTriple(va, vb) =>
                /\ cmp[1].lt <=> TripleLess(va, vb)
                /\ cmp[1].rlt <=> TripleLess(vb, va)
                /\ cmp[1].lt # cmp[1].gt
          /\ cmp[1].eq <=> text(va) = text(vb)
    /\ Version_lt(Plain(1, 2, 3), Plain(1, 2, 4))
    /\ Version_lt(Plain(1, 2, 4), Plain(1, 3, 0))
    /\ Version_lt(Plain(1, 3, 0), Plain(2, 0, 0))
    /\ Version_eq(Plain(1, 2, 3), Plain(1, 2, 3))

\* two versions were compared of which the smaller has the larger patch
C11_Witness ==
    /\ cmp # <<>>
    /\ va.major = vb.major /\ va.minor < vb.minor /\ va.patch > vb.patch
    /\ cmp[1].lt /\ ~cmp[1].gt /\ ~cmp[1].eq

\* the text drawn, with the patch filled in where it is missing
FilledText ==
    str(arg.major) \o <<".">> \o str(arg.minor) \o <<".">>
        \o (IF arg.patch # <<>> THEN str(arg.patch[1]) ELSE <<"0">>)
        \o arg.release

\* C12: Version parse round trip: for every version text
\* major.minor.patch[(-|+)release] with an explicit patch,
\* Version.create(text).text == text, the release delimiter being kept in the
\* suffix; for a text major.minor[(-|+)release] the patch defaults to 0; and
\* re-parsing the canonical text of a parsed version yields an equal version.
C12_RoundTrip ==
    res # <<>> =>
        /\ res[1].exc = None
        /\ LET v == res[1].ret
           IN  /\ v.release = arg.release
               /\ arg.patch # <<>> => text(v) = InputText(arg)
               /\ arg.patch = <<>> => v.patch = 0 /\ text(v) = FilledText
               /\ create(text(v)).exc = None
               /\ Version_eq(create(text(v)).ret, v)

\* the version a bound text of a range input stands for
BoundOf(b) == IF b = <<>> THEN <<>> ELSE <<create(b).ret>>

\* C13: VersionRange parsing of a single bare version without brackets (for
\* example "1.0.0") succeeds and yields a range with minimum = that version,
\* min_inclusive = true and no maximum.
C13_BareVersion ==
    res # <<>> /\ arg.shape = "bare" =>
        /\ res[1].exc = None
        /\ res[1].ret.minimum = BoundOf(arg.left)
        /\ res[1].ret.min_inclusive
        /\ res[1].ret.maximum = <<>>

\* C14: VersionRange parsing of two-bound interval notation: an opening '['
\* gives min_inclusive = true and '(' false, a closing ']' gives
\* max_inclusive = true and ')' false, and for every combination of opening
\* and closing bracket an empty bound on either side yields an absent bound
\* on that side while the other bound is parsed.  Stated of the intervals
\* drawn that have at least one bound.
C14_IntervalNotation ==
    (/\ res # <<>>
     /\ arg.shape = "interval"
     /\ arg.left # <<>> \/ arg.right # <<>>) =>
        /\ res[1].exc = None
        /\ res[1].ret.min_inclusive = (arg.open = <<"[">>)
        /\ res[1].ret.max_inclusive = (arg.close = <<"]">>)
        /\ res[1].ret.minimum = BoundOf(arg.left)
        /\ res[1].ret.maximum = BoundOf(arg.right)

\* C15: VersionRange parsing fails with a parse error, and returns no range,
\* for every text with malformed bracket/comma structure (for example a text
\* with two or more commas, or a two-bound text without brackets).  Any
\* exception counts as the parse error.
C15_MalformedFails ==
    res # <<>> /\ arg.shape \in {"commas", "nobrackets"} =>
        res[1].exc # None /\ res[1].ret = None

\* v is not below the minimum of range r, by the order of the triples
AboveMinimum(r, v) ==
    \/ r.minimum = <<>>
    \/ TripleLess(r.minimum[1], v)
    \/ text(r.minimum[1]) = text(v) /\ r.min_inclusive

\* v is not above the maximum of range r
BelowMaximum(r, v) ==
    \/ r.maximum = <<>>
    \/ TripleLess(v, r.maximum[1])
    \/ text(r.maximum[1]) = text(v) /\ r.max_inclusive

\* no bound of range r has a release suffix
PlainRange(r) ==
    /\ r.minimum # <<>> => r.minimum[1].release = <<>>
    /\ r.maximum # <<>> => r.maximum[1].release = <<>>

\* C16: in_range(version) respects inclusivity at each bound independently:
\* the result is true iff the version satisfies the minimum bound (> minimum,
\* or == minimum with min_inclusive) and the maximum bound (< maximum, or
\* == maximum with max_inclusive), an absent bound being always satisfied; a
\* version equal to an exclusive bound is rejected, also when it equals the
\* other, inclusive bound.  Stated of versions without release suffix.
C16_InRangeInclusivity ==
    (/\ res # <<>>
     /\ res[1].fn = "inrange"
     /\ PlainRange(arg.self)
     /\ arg.version.release = <<>>) =>
        (res[1].inrange <=> (AboveMinimum(arg.self, arg.version)
                                /\ BelowMaximum(arg.self, arg.version)))

called(fn) == res # <<>> /\ res[1].fn = fn

\* a bound if its range marks it inclusive, else none
IfInclusive(inclusive, bound) == IF inclusive THEN bound ELSE <<>>

\* C17: common_minimum_version, when step 1 gives no candidate and both
\* ranges have a maximum, returns the smaller of the two maximums if its
\* owning range marks it inclusive (for equal maximums: that maximum).
\* Stated of ranges without release suffix; for equal maximums, of ranges
\* that agree on the inclusivity.
C17_SmallerMaximum ==
    LET a == arg.self
        b == arg.other
    IN  (/\ called("common_minimum_version")
         /\ PlainRange(a) /\ PlainRange(b)
         /\ step1(a, b) = <<>>
         /\ a.maximum # <<>> /\ b.maximum # <<>>) =>
            /\ TripleLess(a.maximum[1], b.maximum[1]) =>
                  res[1].minimum = IfInclusive(a.max_inclusive, a.maximum)
            /\ TripleLess(b.maximum[1], a.maximum[1]) =>
                  res[1].minimum = IfInclusive(b.max_inclusive, b.maximum)
            /\ a.maximum = b.maximum /\ a.max_inclusive = b.max_inclusive =>
                  res[1].minimum = IfInclusive(a.max_inclusive, a.maximum)

\* C18: common_minimum_version step 1: when neither range has a maximum, the
\* result is the larger of the two minimums if its owning range marks it
\* inclusive (including when both minimums are equal and inclusive), the
\* single existing minimum if only one range has one and marks it inclusive,
\* and absent otherwise.  Stated of ranges without release suffix; for equal
\* minimums, of ranges that agree on the inclusivity.
C18_LargerMinimum ==
    LET a == arg.self
        b == arg.other
    IN  (/\ called("common_minimum_version")
         /\ PlainRange(a) /\ PlainRange(b)
         /\ a.maximum = <<>> /\ b.maximum = <<>>) =>
            /\ a.minimum # <<>> /\ b.minimum # <<>> =>
                  /\ TripleLess(b.minimum[1], a.minimum[1]) =>
                        res[1].minimum = IfInclusive(a.min_inclusive, a.minimum)
                  /\ TripleLess(a.minimum[1], b.minimum[1]) =>
                        res[1].minimum = IfInclusive(b.min_inclusive, b.minimum)
                  /\ a.minimum = b.minimum /\ a.min_inclusive = b.min_inclusive =>
                        res[1].minimum = IfInclusive(a.min_inclusive, a.minimum)
            /\ a.minimum # <<>> /\ b.minimum = <<>> =>
                  res[1].minimum = IfInclusive(a.min_inclusive, a.minimum)
            /\ a.minimum = <<>> /\ b.minimum # <<>> =>
                  res[1].minimum = IfInclusive(b.min_inclusive, b.minimum)
            /\ a.minimum = <<>> /\ b.minimum = <<>> => res[1].minimum = <<>>

\* a <= b: a's triple is smaller, or the texts are equal
AtMost(a, b) == TripleLess(a, b) \/ text(a) = text(b)

\* C19: common_minimum_version step 2: when step 1 gave a candidate and both
\* ranges have a maximum, the result is the smaller of the two maximums iff
\* that smaller maximum is <= the candidate and its owning range marks it
\* inclusive; in every other case the result is the step-1 candidate
\* unchanged (the larger maximum never replaces the candidate).  Stated of
\* maximums of which one is smaller or which are equal; of equal maximums
\* the owner is either range.
C19_PulledDown ==
    LET a == arg.self
        b == arg.other
        candidate == step1(a, b)
        smaller == IF TripleLess(b.maximum[1], a.maximum[1]) THEN b.maximum
                   ELSE a.maximum
        inclusive == IF TripleLess(b.maximum[1], a.maximum[1]) THEN b.max_inclusive
                     ELSE IF TripleLess(a.maximum[1], b.maximum[1])
                     THEN a.max_inclusive
                     ELSE a.max_inclusive \/ b.max_inclusive
    IN  (/\ called("common_minimum_version")
         /\ candidate # <<>>
         /\ a.maximum # <<>> /\ b.maximum # <<>>
         /\ \/ AtMost(a.maximum[1], b.maximum[1])
            \/ AtMost(b.maximum[1], a.maximum[1])) =>
            (IF AtMost(smaller[1], candidate[1]) /\ inclusive
             THEN res[1].minimum = smaller
             ELSE res[1].minimum = candidate)

\* the places of the index items whose range contains the version asked for
Covering ==
    {i \in 1..Len(arg.index) :
        /\ AboveMinimum(arg.index[i].version_range, arg.package_version)
        /\ BelowMaximum(arg.index[i].version_range, arg.package_version)}

\* the first of them
FirstCovering == CHOOSE i \in Covering : \A j \in Covering : i <= j

\* the catalog items of the page of the first covering index item that have
\* the text of the version asked for
Matching ==
    LET page == arg.responses[arg.index[FirstCovering].url]
    IN  {i \in 1..Len(page) :
            text(page[i].entry.version) = text(arg.package_version)}

\* C20: get_metadata(name, version) returns absent, without raising, when no
\* registration item's range contains the version and when no catalog entry's
\* canonical version text equals the requested one; otherwise it uses the
\* first registration item in index order whose range contains the version.
C20_AbsentOrFirstItem ==
    res # <<>> =>
        /\ res[1].exc = None
        /\ Covering = {} => res[1].ret = <<>>
        /\ Covering # {} /\ Matching = {} => res[1].ret = <<>>
        /\ Covering # {} /\ Matching # {} =>
              /\ res[1].ret # <<>>
              /\ text(res[1].ret[1].entry.version) = text(arg.package_version)

\* the places of the index entries of a key hash
EntriesOf(idx, keyhash) == {i \in DOMAIN idx : idx[i].keyhash = keyhash}

C22_LockExistsAtCacheOps ==
    /\ last.op \in {"get", "add", "delete"} => lock # Unbound
    /\ (\E w \in Workers : wk[w].pc # "idle") => lock # Unbound

\* the element carries both a Version and a VersionOverride attribute
HasBoth(attrib) == attrib.Version # <<>> /\ attrib.VersionOverride # <<>>

\* C23: a PackageReference whose element did not start with both attributes
\* never carries Version and VersionOverride together, whatever is assigned
\* to version and version_override; assigning a version while a
\* VersionOverride is present leaves the element unchanged, and assigning a
\* version_override value removes Version
C23_NeverBoth ==
    ~HasBoth(pref.start) =>
        /\ ~HasBoth(pref.xml)
        /\ (pref.op = "version" /\ truthy(pref.value)
                /\ pref.before.VersionOverride # <<>>) => pref.xml = pref.before
        /\ (pref.op = "version_override" /\ truthy(pref.value))
                => pref.xml.Version = <<>>

\* the bounds of a range that the range marks inclusive
InclusiveBounds(r) ==
    {r.minimum[1] : x \in {y \in {r.minimum} : y # <<>> /\ r.min_inclusive}}
        \cup {r.maximum[1] : x \in {y \in {r.maximum} : y # <<>> /\ r.max_inclusive}}

\* C24: when common_minimum_version returns a version, that version is equal
\* to one of the four bounds of the two ranges, and the range that owns the
\* bound marks it inclusive; when both ranges have no bounds it returns absent
C24_InclusiveBound ==
    LET a == arg.self
        b == arg.other
    IN  called("common_minimum_version") =>
            /\ res[1].minimum # <<>> =>
                  \E v \in InclusiveBounds(a) \cup InclusiveBounds(b) :
                      Version_eq(v, res[1].minimum[1])
            /\ (/\ a.minimum = <<>> /\ a.maximum = <<>>
                /\ b.minimum = <<>> /\ b.maximum = <<>>) => res[1].minimum = <<>>

\* a version is returned that came from a maximum: step 1 chose a minimum and
\* step 2 replaced it by another version
C24_Witness ==
    /\ called("common_minimum_version")
    /\ res[1].minimum # <<>>
    /\ step1(arg.self, arg.other) # <<>>
    /\ ~Version_eq(step1(arg.self, arg.other)[1], res[1].minimum[1])

\* two results of common_minimum_version agree: both absent, or equal versions
SameResult(m, n) ==
    \/ m = <<>> /\ n = <<>>
    \/ m # <<>> /\ n # <<>> /\ Version_eq(m[1], n[1])

\* C25: common_minimum_version is commutative: a.common_minimum_version(b)
\* and b.common_minimum_version(a) are both absent or are equal versions,
\* for every pair of ranges, bounds that differ only by release suffix
\* included
C25_Commutative ==
    called("common_minimum_version") =>
        SameResult(res[1].minimum, common_minimum_version(arg.other, arg.self))

====
